---- MODULE Spec2Model ----
(***************************************************************************)
(* Capture coordinator of src/client/camera_server.py: the per-connection   *)
(* handler handle_client, the module-level registry and session globals,    *)
(* and trigger_capture_and_wait with its barrier loop.  All coroutines run  *)
(* on one asyncio loop, so every action below is the code between two       *)
(* awaits of one coroutine.                                                 *)
(***************************************************************************)
EXTENDS Integers, Sequences, FiniteSets, TLC

\* ---------------------------------------------------------------- bounds
NumConn == 2          \* websocket objects that ever connect
MaxCalls == 2         \* calls of trigger_capture_and_wait
TimeoutPolls == 2     \* the timeout argument, in units of check_interval
MaxTime == 2          \* last value of the wall clock, in seconds
MaxRows == 2          \* rows the ledger file holds before the model stops appending
MaxTimeout == 2       \* largest timeout argument below the default, in seconds

\* ------------------------------------------------------ program constants
SYNC_DELAY == 2
TIMEOUT == 15

Conn == 1..NumConn
Call == 1..MaxCalls
Time == 1..MaxTime

Macs == {"m1"}
NoMac == "None"                       \* Python None / a missing "mac" key
DeviceIds == {<<"a", "/">>}           \* device_id strings, as character lists
Absent == <<>>                        \* key not present in a dict / message

\* The hardware addresses a capture_metadata message can carry: the message
\* names its device itself, whatever the connection announced in its hello.
ReportedMacs == Macs \cup {"m2"}

\* The capture_metadata messages of the model; the telemetry keys other than
\* "mac" and "device_id" are absent from them.
Metadatas == [mac : ReportedMacs, device_id : DeviceIds \cup {Absent}]

\* f"client_{client_id}" and f"unknown_{id(client)}"
ClientName(c) == <<"client_", ToString(c)>>
UnknownName(c) == <<"unknown_", ToString(c)>>

\* current_capture_folder: never assigned at module level, so the name is
\* unbound until the first trigger assigns it.
Unbound == <<"unbound", 0>>
NoneFolder == <<"None", 0>>
Uncategorized == <<"output/uncategorized", 0>>
\* f"output/capture_{timestamp_str}", the timestamp having a resolution of 1 s
CaptureFolder(capture_time) == <<"output/capture_", capture_time>>

\* str.isalnum() or c in "-_", on the characters the model uses
SafeChar(ch) == ch \notin {"/", ".", " ", ":"}
sanitize_filename(s) == SelectSeq(s, SafeChar)

\* --------------------------------------------------------- the ledger file
METADATA_FIELDS == <<"timestamp", "mac", "device_id", "firmware_version",
                     "board_type", "rssi", "resolution", "jpeg_quality",
                     "image_size", "duration", "sync_delay">>

\* What csv.DictWriter and f.write put into the file for a value: str(value),
\* and the empty string for None.
Cell(v) == IF v = NoMac THEN "" ELSE v

\* ','.join(METADATA_FIELDS) + '\n'
HeaderLine == METADATA_FIELDS

\* "".join of a list of characters
RECURSIVE Str(_)
Str(chars) == IF chars = <<>> THEN "" ELSE Head(chars) \o Str(Tail(chars))

\* writer.writerow(row): the values of row in the order of fieldnames
RowLine(row) == [i \in 1..Len(METADATA_FIELDS) |-> Cell(row[METADATA_FIELDS[i]])]

\* "timestamp" in existing[0]
MentionsTimestamp(line) == \E i \in 1..Len(line) : line[i] = "timestamp"

\* existing[1:] if existing and "timestamp" in existing[0] else existing
OldRows(existing) ==
    IF existing # <<>> /\ MentionsTimestamp(existing[1])
      THEN Tail(existing) ELSE existing

\* ----------------------------------------------- IEEE 754 double arithmetic
\* A non-negative double below 16 is a multiple of 2^-56 with at most 53
\* significant bits.  It is kept as the three digits <<d2, d1, d0>>, base 2^20,
\* of that multiple.
Base == 1048576
MantissaBits == 53

RECURSIVE BitLen(_)
BitLen(n) == IF n = 0 THEN 0 ELSE 1 + BitLen(n \div 2)

RECURSIVE Pow2(_)
Pow2(e) == IF e = 0 THEN 1 ELSE 2 * Pow2(e - 1)

\* check_interval = 0.1, the double 7205759403792794 * 2^-56
CheckInterval == <<6553, 629145, 629146>>
FloatZero == <<0, 0, 0>>
\* a whole number of seconds as a double
FloatOfSeconds(t) == <<t * 65536, 0, 0>>

\* The sum of two digit strings, exact.
ExactSum(x, y) ==
    LET s0 == x[3] + y[3]
        s1 == x[2] + y[2] + (s0 \div Base)
        s2 == x[1] + y[1] + (s1 \div Base)
    IN <<s2, s1 % Base, s0 % Base>>

\* Round to nearest, ties to even, at 53 significant bits.
RoundToDouble(x) ==
    LET bits == IF x[1] = 0 THEN 0 ELSE 40 + BitLen(x[1])
        shift == IF bits > MantissaBits THEN bits - MantissaBits ELSE 0
        unit == Pow2(shift)
        low == x[3] % unit
        odd == (x[3] \div unit) % 2 = 1
        up == 2 * low > unit \/ (2 * low = unit /\ odd)
        floor == <<x[1], x[2], x[3] - low>>
    IN IF shift = 0 \/ low = 0 THEN x
       ELSE IF up THEN ExactSum(floor, <<0, 0, unit>>) ELSE floor

\* x + y and x < y on doubles
FloatAdd(x, y) == RoundToDouble(ExactSum(x, y))
FloatLess(x, y) ==
    \/ x[1] < y[1]
    \/ x[1] = y[1] /\ x[2] < y[2]
    \/ x[1] = y[1] /\ x[2] = y[2] /\ x[3] < y[3]

VARIABLES
    now,                        \* the last reading of time.time(), whole seconds
    hpc,                        \* position of handle_client per websocket
    open,                       \* the websocket's transport is open
    connected_clients,
    client_name_map,
    client_mac_map,
    mac_to_ws,
    image_receive_times,
    current_capture_folder,
    capture_request_received_time,
    capture_expected_clients,
    capture_received_clients,
    dirs,                       \* directories that exist
    files,                      \* path -> the image it holds: sender, command answered
    ncalls,                     \* calls of trigger_capture_and_wait so far
    pc,                         \* position of each call
    waited,                     \* local variable waited, in check intervals
    result,                     \* what each call returned
    atRes,                      \* history: what the call's resolution read
    snap,                       \* history: connected_clients at the call's trigger
    ownRecv,                    \* history: websockets whose image was stored while
                                \* the call was the latest trigger, which is the
                                \* content of the set object its trigger created
    folderOf,                   \* history: the directory the call's trigger made
    metadata_records,
    csv,                        \* the lines of the file METADATA_CSV_PATH
    bpc,                        \* position of broadcast_time
    lastSync,                   \* history: websockets the last tick's sends reached
    max_wait,                   \* the barrier loop in float arithmetic: its bound,
    fwaited,                    \* its local variable waited,
    polls,                      \* history: sleeps it has performed,
    lpc                         \* and its position

vars == <<now, hpc, open, connected_clients, client_name_map,
          client_mac_map, mac_to_ws, image_receive_times,
          current_capture_folder, capture_request_received_time,
          capture_expected_clients, capture_received_clients, dirs, files,
          ncalls, pc, waited, result, atRes, snap, ownRecv, folderOf,
          metadata_records, csv, bpc, lastSync,
          max_wait, fwaited, polls, lpc>>

registry == <<connected_clients, client_name_map, client_mac_map, mac_to_ws>>
session == <<current_capture_folder, capture_request_received_time,
             capture_expected_clients, capture_received_clients>>
calls == <<ncalls, pc, waited, result, atRes, snap, ownRecv, folderOf>>
store == <<dirs, files, image_receive_times>>
ledger == <<metadata_records, csv>>
broadcaster == <<bpc, lastSync>>
floatloop == <<max_wait, fwaited, polls, lpc>>

\* The dict a call returns (status: nothing yet, a value, or an exception).
NoResult == [status |-> "none", success |-> FALSE, error |-> FALSE,
             missing |-> <<>>, saved_images |-> 0, folder |-> Unbound]
NotResolved == [expected |-> {}, received |-> {}, delivered |-> {},
                latest |-> FALSE]

Init ==
    /\ now = 1
    /\ hpc = [c \in Conn |-> "none"]
    /\ open = [c \in Conn |-> FALSE]
    /\ connected_clients = {}
    /\ client_name_map = [c \in Conn |-> Absent]
    /\ client_mac_map = [c \in Conn |-> NoMac]
    /\ mac_to_ws = [m \in Macs |-> 0]
    /\ image_receive_times = [m \in Macs |-> 0]
    /\ current_capture_folder = Unbound
    /\ capture_request_received_time = 0
    /\ capture_expected_clients = {}
    /\ capture_received_clients = {}
    /\ dirs = {}
    /\ files = {}
    /\ ncalls = 0
    /\ pc = [k \in Call |-> "idle"]
    /\ waited = [k \in Call |-> 0]
    /\ result = [k \in Call |-> NoResult]
    /\ atRes = [k \in Call |-> NotResolved]
    /\ snap = [k \in Call |-> {}]
    /\ ownRecv = [k \in Call |-> {}]
    /\ folderOf = [k \in Call |-> Unbound]
    /\ metadata_records = [m \in ReportedMacs |-> <<>>]
    /\ csv = <<HeaderLine>>
    /\ bpc = "run"
    /\ lastSync = {}
    /\ max_wait = FloatZero
    /\ fwaited = FloatZero
    /\ polls = 0
    /\ lpc = "idle"

\* ------------------------------------------------------------ handle_client

\* Teardown as it would be if the finally block also took the websocket out of
\* the expected set (the expected set as a live view of the registry).
TeardownDropsExpected(c) ==
    /\ connected_clients' = connected_clients \ {c}
    /\ client_name_map' = [client_name_map EXCEPT ![c] = Absent]
    /\ IF client_mac_map[c] # NoMac
         THEN /\ client_mac_map' = [client_mac_map EXCEPT ![c] = NoMac]
              /\ mac_to_ws' = [mac_to_ws EXCEPT ![client_mac_map[c]] = 0]
         ELSE UNCHANGED <<client_mac_map, mac_to_ws>>
    /\ capture_expected_clients' = capture_expected_clients \ {c}
    /\ UNCHANGED capture_received_clients

\* Teardown as it would be if the finally block also discarded the websocket
\* from the received set.
TeardownDropsReceived(c) ==
    /\ connected_clients' = connected_clients \ {c}
    /\ client_name_map' = [client_name_map EXCEPT ![c] = Absent]
    /\ IF client_mac_map[c] # NoMac
         THEN /\ client_mac_map' = [client_mac_map EXCEPT ![c] = NoMac]
              /\ mac_to_ws' = [mac_to_ws EXCEPT ![client_mac_map[c]] = 0]
         ELSE UNCHANGED <<client_mac_map, mac_to_ws>>
    /\ capture_received_clients' = capture_received_clients \ {c}
    /\ UNCHANGED capture_expected_clients

\* The finally block of handle_client.  It touches the registry maps only.
Teardown(c) ==
    /\ connected_clients' = connected_clients \ {c}
    /\ client_name_map' = [client_name_map EXCEPT ![c] = Absent]
    /\ IF client_mac_map[c] # NoMac
         THEN /\ client_mac_map' = [client_mac_map EXCEPT ![c] = NoMac]
              /\ mac_to_ws' = [mac_to_ws EXCEPT ![client_mac_map[c]] = 0]
         ELSE UNCHANGED <<client_mac_map, mac_to_ws>>
    /\ UNCHANGED <<capture_expected_clients, capture_received_clients>>

\* The directory creation as it would be if it were left to a later step.
makedirsDeferred(existing, path) == existing

\* os.makedirs(path, exist_ok=True), on the set of directories that exist
makedirs(existing, path) == existing \cup {path}

\* A transport accepts: handle_client starts and registers the websocket.
Connect(c) ==
    /\ hpc[c] = "none"
    /\ \A d \in Conn : d < c => hpc[d] # "none"
    /\ connected_clients' = connected_clients \cup {c}
    /\ hpc' = [hpc EXCEPT ![c] = "hello"]
    /\ open' = [open EXCEPT ![c] = TRUE]
    /\ UNCHANGED <<now, client_name_map, client_mac_map, mac_to_ws,
                   session, calls, store>>
    /\ UNCHANGED <<ledger, broadcaster, floatloop>>

\* The peer (or the network) closes the transport; the handler notices at its
\* next recv or send.
TransportClose(c) ==
    /\ hpc[c] \in {"hello", "sync", "loop"}
    /\ open[c]
    /\ open' = [open EXCEPT ![c] = FALSE]
    /\ UNCHANGED <<now, hpc, registry, session, calls, store>>
    /\ UNCHANGED <<ledger, broadcaster, floatloop>>

\* What wait_for(websocket.recv(), 2.0) can produce as the first message.
FirstMsgs ==
    [kind : {"hello"}, mac : Macs \cup {NoMac}, device_id : DeviceIds]
    \cup [kind : {"other", "garbage", "binary", "timeout", "closed"},
          mac : {NoMac}, device_id : {Absent}]

\* The hello grace window: the first message, a timeout or a closed transport.
\* Every failure is swallowed by `except Exception`.
Hello(c, m) ==
    /\ hpc[c] = "hello"
    /\ m.kind = "closed" <=> ~open[c]
    /\ IF m.kind = "hello" /\ m.mac # NoMac
         THEN /\ client_mac_map' = [client_mac_map EXCEPT ![c] = m.mac]
              /\ mac_to_ws' = [mac_to_ws EXCEPT ![m.mac] = c]
         ELSE UNCHANGED <<client_mac_map, mac_to_ws>>
    /\ client_name_map' = [client_name_map EXCEPT ![c] =
          IF m.kind = "hello" /\ m.device_id # Absent
            THEN m.device_id ELSE ClientName(c)]
    /\ hpc' = [hpc EXCEPT ![c] = "sync"]
    /\ UNCHANGED <<now, open, connected_clients, session, calls, store>>
    /\ UNCHANGED <<ledger, broadcaster, floatloop>>

\* asyncio.sleep(0.1), then websocket.send of the first sync message.  The send
\* is outside every try block: on a closed transport the exception leaves
\* handle_client without running its finally block.
SyncSend(c) ==
    /\ hpc[c] = "sync"
    /\ hpc' = [hpc EXCEPT ![c] = IF open[c] THEN "loop" ELSE "dead"]
    /\ UNCHANGED <<now, open, registry, session, calls, store>>
    /\ UNCHANGED <<ledger, broadcaster, floatloop>>

\* `async for` ends (ConnectionClosed is caught) and the finally block runs.
Disconnect(c) ==
    /\ hpc[c] = "loop"
    /\ ~open[c]
    /\ Teardown(c)
    /\ hpc' = [hpc EXCEPT ![c] = "done"]
    /\ UNCHANGED <<now, open, current_capture_folder,
                   capture_request_received_time, calls, store>>
    /\ UNCHANGED <<ledger, broadcaster, floatloop>>

\* An exception other than ConnectionClosed inside the message loop: the
\* finally block runs, the exception leaves handle_client and the server
\* closes the connection.
Crash(c) ==
    /\ Teardown(c)
    /\ hpc' = [hpc EXCEPT ![c] = "done"]
    /\ open' = [open EXCEPT ![c] = FALSE]

\* The capture commands websocket c was sent (0: a frame answering none).
Commands(c) == {0} \cup {k \in 1..ncalls : c \in snap[k]}

\* capture_received_clients.add(websocket)
ReceivedAdd(received, c) == received \cup {c}

\* A binary frame in the message loop; tag names the capture command the
\* device answers with it, t is what time.time() returns.
Image(c, tag, t) ==
    /\ hpc[c] = "loop"
    /\ open[c]
    /\ tag \in Commands(c)
    /\ t >= now
    /\ LET mac == client_mac_map[c]
           sender_name == IF client_name_map[c] # Absent
                            THEN client_name_map[c] ELSE UnknownName(c)
           folder == IF current_capture_folder = NoneFolder
                       THEN Uncategorized ELSE current_capture_folder
           filename == <<folder, sanitize_filename(sender_name), mac>>
       IN
       IF current_capture_folder = Unbound
         THEN \* NameError: the global was never bound
              /\ Crash(c)
              /\ UNCHANGED <<now, current_capture_folder, store, ownRecv>>
         ELSE IF mac = NoMac
           THEN \* sanitize_filename(None): TypeError
                /\ Crash(c)
                /\ current_capture_folder' = folder
                /\ dirs' = IF current_capture_folder = NoneFolder
                             THEN makedirs(dirs, folder) ELSE dirs
                /\ UNCHANGED <<now, files, image_receive_times, ownRecv>>
           ELSE /\ current_capture_folder' = folder
                /\ dirs' = IF current_capture_folder = NoneFolder
                             THEN makedirs(dirs, folder) ELSE dirs
                /\ files' = {f \in files : f.path # filename}
                              \cup {[path |-> filename, by |-> c, tag |-> tag]}
                /\ now' = t
                /\ image_receive_times' =
                      [image_receive_times EXCEPT ![mac] = t]
                /\ capture_received_clients' =
                      ReceivedAdd(capture_received_clients, c)
                /\ ownRecv' = [ownRecv EXCEPT ![ncalls] = @ \cup {c}]
                /\ UNCHANGED <<hpc, open, registry, capture_expected_clients>>
    /\ UNCHANGED <<capture_request_received_time, ncalls, pc, waited,
                   result, atRes, snap, folderOf>>
    /\ UNCHANGED <<ledger, broadcaster, floatloop>>

\* A text frame that json.loads rejects: JSONDecodeError is not caught.
Malformed(c) ==
    /\ hpc[c] = "loop"
    /\ open[c]
    /\ Crash(c)
    /\ UNCHANGED <<now, current_capture_folder,
                   capture_request_received_time, calls, store>>
    /\ UNCHANGED <<ledger, broadcaster, floatloop>>

\* Lines 128-132: image_receive_times.get(mac_id), and the duration if both
\* times are set (None otherwise).
Duration(mac_id) ==
    LET img_time == IF mac_id \in Macs THEN image_receive_times[mac_id] ELSE 0
    IN IF img_time # 0 /\ capture_request_received_time # 0
         THEN ToString(img_time - capture_request_received_time) ELSE NoMac

\* Lines 135-147: the row dict built from the message.
LedgerRow(data) ==
    [timestamp |-> ToString(now),
     mac |-> data.mac,
     device_id |-> IF data.device_id = Absent THEN "" ELSE Str(data.device_id),
     firmware_version |-> "",
     board_type |-> "",
     rssi |-> "",
     resolution |-> "",
     jpeg_quality |-> "",
     image_size |-> "",
     duration |-> Duration(data.mac),
     sync_delay |-> ToString(SYNC_DELAY)]

\* Lines 150-156: the file is read and written anew: the header, the new row,
\* then the lines it held before without their header.
Rewritten(existing, row) == <<HeaderLine, RowLine(row)>> \o OldRows(existing)

\* The store as it would be if the first record of a device were kept.
StoreFirstRecord(records, data) ==
    IF records[data.mac] = <<>>
      THEN [records EXCEPT ![data.mac] = <<data>>] ELSE records

\* metadata_records[mac_id] = data
StoreRecord(records, data) == [records EXCEPT ![data.mac] = <<data>>]

\* The capture_metadata branch as it would be without the try block of lines
\* 149-158: a failed file update ends the handler.
MetadataFailureRaises(c, data, io) ==
    /\ hpc[c] = "loop"
    /\ open[c]
    /\ Len(csv) <= MaxRows
    /\ metadata_records' = StoreRecord(metadata_records, data)
    /\ IF io = "ok"
         THEN /\ csv' = Rewritten(csv, LedgerRow(data))
              /\ UNCHANGED <<hpc, open, registry, capture_expected_clients,
                             capture_received_clients>>
         ELSE /\ csv' = csv
              /\ Crash(c)
    /\ UNCHANGED <<now, current_capture_folder, capture_request_received_time,
                   calls, store, broadcaster, floatloop>>

\* A capture_metadata text frame.  io tells whether the file could be read and
\* rewritten; a failure is logged and swallowed (lines 157-158).
Metadata(c, data, io) ==
    /\ hpc[c] = "loop"
    /\ open[c]
    /\ Len(csv) <= MaxRows
    /\ metadata_records' = StoreRecord(metadata_records, data)
    /\ csv' = IF io = "ok" THEN Rewritten(csv, LedgerRow(data)) ELSE csv
    /\ UNCHANGED <<now, hpc, open, registry, session, calls, store,
                   broadcaster, floatloop>>

\* A text frame that parses to a message of another type: it is logged.
OtherText(c) ==
    /\ hpc[c] = "loop"
    /\ open[c]
    /\ UNCHANGED vars

\* ------------------------------------------------- trigger_capture_and_wait

\* connected_clients.copy(): a new set object with the members of the moment.
ExpectedSnapshot(live, previous) == live

\* The reset as it would be if the trigger kept the previous set.
ReceivedKept(previous) == previous

\* capture_received_clients = set(): a new, empty set object.
ReceivedReset(previous) == {}

\* [client_name_map.get(client, f"unknown_{id(client)}") for client in missing]
MissingNames(missing) ==
    [c \in missing |-> IF client_name_map[c] # Absent
                         THEN client_name_map[c] ELSE UnknownName(c)]

\* Lines 249-267: the result computed from the module globals.
Resolution ==
    LET missing_clients == capture_expected_clients \ capture_received_clients
    IN [status |-> "value",
        success |-> (missing_clients = {}),
        error |-> FALSE,
        missing |-> MissingNames(missing_clients),
        saved_images |-> Cardinality(capture_received_clients),
        folder |-> current_capture_folder]

\* Images stored since the trigger of call k.
DeliveredSince(k) == UNION {ownRecv[j] : j \in k..ncalls}

\* History of a resolution: the globals it read, the images stored during the
\* call, and whether the call still was the latest trigger.
Observed(k) ==
    [expected |-> capture_expected_clients,
     received |-> capture_received_clients,
     delivered |-> DeliveredSince(k),
     latest |-> (ncalls = k)]

\* `while waited < max_wait` and the break test, with waited = w.
KeepWaiting(w) ==
    w < TimeoutPolls /\ capture_expected_clients # capture_received_clients

\* The loop head with waited = w, run without an await up to the sleep or up
\* to the return.
LoopHead(k, w) ==
    /\ waited' = [waited EXCEPT ![k] = w]
    /\ IF KeepWaiting(w)
         THEN /\ pc' = [pc EXCEPT ![k] = "sleep"]
              /\ UNCHANGED <<result, atRes>>
         ELSE /\ pc' = [pc EXCEPT ![k] = "returned"]
              /\ result' = [result EXCEPT ![k] = Resolution]
              /\ atRes' = [atRes EXCEPT ![k] = Observed(k)]

\* The fan-out as it would be without the `if connected_clients` test.
FanOutUnguarded(live) ==
    IF \E c \in live : ~open[c] THEN "raised" ELSE "sent"

\* Lines 227-236: where the call stands once the capture command has been
\* handed to every websocket of live.  gather() re-raises the first failed
\* send to the caller while the other sends complete.
FanOut(live) ==
    IF live = {} THEN "returned"
    ELSE IF \E c \in live : ~open[c] THEN "raised"
    ELSE "sent"

\* Lines 209-236: the globals are rebound, the directory is made and the
\* capture command is handed to every registered websocket, all before the
\* first await; t is what time.time() returns.
Trigger(k, t) ==
    /\ pc[k] = "idle"
    /\ k = ncalls + 1
    /\ t >= now
    /\ now' = t
    /\ ncalls' = k
    /\ capture_request_received_time' = t
    /\ current_capture_folder' = CaptureFolder(t + SYNC_DELAY)
    /\ dirs' = makedirs(dirs, CaptureFolder(t + SYNC_DELAY))
    /\ capture_expected_clients' =
          ExpectedSnapshot(connected_clients, capture_expected_clients)
    /\ capture_received_clients' = ReceivedReset(capture_received_clients)
    /\ snap' = [snap EXCEPT ![k] = connected_clients]
    /\ ownRecv' = [ownRecv EXCEPT ![k] = {}]
    /\ folderOf' = [folderOf EXCEPT ![k] = CaptureFolder(t + SYNC_DELAY)]
    /\ pc' = [pc EXCEPT ![k] = FanOut(connected_clients)]
    /\ result' = [result EXCEPT ![k] =
          IF FanOut(connected_clients) = "returned"
            THEN [NoResult EXCEPT !.status = "value", !.error = TRUE,
                                  !.folder = CaptureFolder(t + SYNC_DELAY)]
          ELSE IF FanOut(connected_clients) = "raised"
            THEN [NoResult EXCEPT !.status = "exception"]
          ELSE NoResult]
    /\ UNCHANGED <<hpc, open, registry, waited, atRes, files,
                   image_receive_times>>
    /\ UNCHANGED <<ledger, broadcaster, floatloop>>

\* gather() has returned: the barrier loop is entered with waited = 0.
EnterBarrier(k) ==
    /\ pc[k] = "sent"
    /\ LoopHead(k, 0)
    /\ UNCHANGED <<now, hpc, open, registry, session, ncalls, snap, ownRecv,
                   folderOf, store>>
    /\ UNCHANGED <<ledger, broadcaster, floatloop>>

\* asyncio.sleep(check_interval) is over: waited += check_interval, and the
\* loop head is evaluated again.
Wake(k) ==
    /\ pc[k] = "sleep"
    /\ LoopHead(k, waited[k] + 1)
    /\ UNCHANGED <<now, hpc, open, registry, session, ncalls, snap, ownRecv,
                   folderOf, store>>
    /\ UNCHANGED <<ledger, broadcaster, floatloop>>

\* ------------------------------------------------------------ broadcast_time

\* The recipients as they would be if a tick addressed only the websockets
\* that announced a hardware address.
RecipientsIdentified(live) == {c \in live : client_mac_map[c] # NoMac}

\* The websockets a tick sends to: every member of connected_clients, as the
\* list comprehension of line 183 reads it.
Recipients(live) == live

\* One iteration of `while True`: the sends of the tick, then sleep(5).  gather
\* re-raises the first send that fails on a closed transport; nothing catches
\* it in broadcast_time and nothing restarts the task, while the sends to the
\* other websockets, already scheduled, complete.
Tick ==
    /\ bpc = "run"
    /\ lastSync' = {c \in Recipients(connected_clients) : open[c]}
    /\ bpc' = IF \E c \in Recipients(connected_clients) : ~open[c]
                THEN "dead" ELSE "run"
    /\ UNCHANGED <<now, hpc, open, registry, session, calls, store,
                   ledger, floatloop>>

\* ------------------------------- the barrier loop in the arithmetic of floats

\* The timeout arguments of the model, in seconds: small ones and the default.
Timeouts == (1..MaxTimeout) \cup {TIMEOUT}

\* Lines 239-241: max_wait = timeout, waited = 0.
EnterLoop(timeout) ==
    /\ lpc \in {"idle", "resolved"}
    /\ max_wait' = FloatOfSeconds(timeout)
    /\ fwaited' = FloatZero
    /\ polls' = 0
    /\ lpc' = "head"
    /\ UNCHANGED <<now, hpc, open, registry, session, calls, store,
                   ledger, broadcaster>>

\* Lines 243-247, one evaluation of the loop head; equal is the outcome of
\* capture_expected_clients == capture_received_clients at this moment, which
\* is up to the devices.  Either the loop sleeps and adds check_interval to
\* waited, or it is left and the call resolves.
Poll(equal) ==
    /\ lpc = "head"
    /\ IF FloatLess(fwaited, max_wait) /\ ~equal
         THEN /\ fwaited' = FloatAdd(fwaited, CheckInterval)
              /\ polls' = polls + 1
              /\ UNCHANGED lpc
         ELSE /\ lpc' = "resolved"
              /\ UNCHANGED <<fwaited, polls>>
    /\ UNCHANGED <<now, hpc, open, registry, session, calls, store,
                   ledger, broadcaster, max_wait>>

Next ==
    \/ \E c \in Conn : Connect(c)
    \/ \E c \in Conn : TransportClose(c)
    \/ \E c \in Conn, m \in FirstMsgs : Hello(c, m)
    \/ \E c \in Conn : SyncSend(c)
    \/ \E c \in Conn : Disconnect(c)
    \/ \E c \in Conn, tag \in 0..MaxCalls : Image(c, tag, now)
    \/ \E c \in Conn : Malformed(c)
    \/ \E c \in Conn : OtherText(c)
    \/ \E k \in Call, t \in Time : Trigger(k, t)
    \/ \E k \in Call : EnterBarrier(k)
    \/ \E k \in Call : Wake(k)

Spec == Init /\ [][Next]_vars

\* The coordinator with its ledger, for one device whose transport stays open
\* and whose text frames parse; its capture_metadata frames carry either
\* address.  A capture_metadata frame writes metadata_records and the ledger
\* file only, so every behaviour of the handlers and calls with such frames
\* arriving is a behaviour of Spec once these two are hidden.
OneDevice == {1}

NextLedger ==
    \/ \E c \in OneDevice : Connect(c)
    \/ \E c \in OneDevice, m \in FirstMsgs : Hello(c, m)
    \/ \E c \in OneDevice : SyncSend(c)
    \/ \E c \in OneDevice, tag \in 0..MaxCalls : Image(c, tag, now)
    \/ \E c \in OneDevice, data \in Metadatas, io \in {"ok", "failed"} :
          Metadata(c, data, io)
    \/ \E c \in OneDevice : OtherText(c)
    \/ \E k \in Call, t \in Time : Trigger(k, t)
    \/ \E k \in Call : EnterBarrier(k)
    \/ \E k \in Call : Wake(k)

SpecLedger == Init /\ [][NextLedger]_vars

\* The barrier loop alone, with waited accumulated as the code accumulates it:
\* in doubles.  Spec counts the timeout in sleeps (TimeoutPolls); how many
\* sleeps a timeout given in seconds makes is what this specification computes.
NextBarrier ==
    \/ \E timeout \in Timeouts : EnterLoop(timeout)
    \/ \E equal \in BOOLEAN : Poll(equal)

SpecBarrier == Init /\ [][NextBarrier]_vars

\* The coordinator with its broadcaster, for devices that send no frame after
\* their first message.  broadcast_time writes bpc and lastSync only, so
\* every behaviour of the handlers and calls with the broadcaster running is a
\* behaviour of Spec once these two are hidden.
NextSync ==
    \/ \E c \in Conn : Connect(c)
    \/ \E c \in Conn : TransportClose(c)
    \/ \E c \in Conn, m \in FirstMsgs : Hello(c, m)
    \/ \E c \in Conn : SyncSend(c)
    \/ \E c \in Conn : Disconnect(c)
    \/ Tick
    \/ \E k \in Call, t \in Time : Trigger(k, t)
    \/ \E k \in Call : EnterBarrier(k)
    \/ \E k \in Call : Wake(k)

SpecSync == Init /\ [][NextSync]_vars

\* ------------------------------------------------------------------ claims

InBarrier(k) == pc[k] \in {"sent", "sleep"}

MonotonicReceipt ==
    [][\A k \in Call :
          (InBarrier(k) /\ ncalls' = ncalls)
             => capture_received_clients \subseteq capture_received_clients']_vars

\* C3 witness: a websocket that delivered during the session of a call still
\* in its barrier has been torn down and still is in the received set.
MonotonicReceiptWitness ==
    \E k \in Call, c \in Conn :
        /\ pc[k] = "sleep" /\ ncalls = k
        /\ hpc[c] = "done" /\ c \notin connected_clients
        /\ c \in capture_received_clients

\* C9 (no devices at trigger): a call whose trigger found no registered
\* websocket has returned success = false with saved_images = 0, and it never
\* entered the barrier (no loop head was evaluated, waited stays 0).
NoDevicesAtTrigger ==
    \A k \in Call :
        (k <= ncalls /\ snap[k] = {})
           => /\ pc[k] = "returned"
              /\ result[k].status = "value"
              /\ ~result[k].success
              /\ result[k].error
              /\ result[k].saved_images = 0
              /\ waited[k] = 0
              /\ atRes[k] = NotResolved

\* C9 witness: a trigger with an empty registry has returned, after a
\* websocket had been registered and torn down again.
NoDevicesAtTriggerWitness ==
    \E k \in Call :
        /\ k <= ncalls /\ snap[k] = {} /\ pc[k] = "returned"
        /\ \E c \in Conn : hpc[c] = "done"

\* C10 (P5, no cross-session bleed): every member of the received set had an
\* image stored after the latest trigger; an image stored before that trigger
\* never makes its sender a member.
NoCrossSessionBleed ==
    IF ncalls = 0 THEN capture_received_clients = {}
    ELSE capture_received_clients \subseteq ownRecv[ncalls]

\* C10 witness: call 1 resolved without an image of c, then c's image was
\* stored, then call 2 was triggered with c expected: c is not in the received
\* set of call 2, which waits for it.
NoCrossSessionBleedWitness ==
    \E c \in Conn :
        /\ ncalls = 2 /\ pc[1] = "returned" /\ pc[2] = "sleep"
        /\ atRes[1].latest /\ c \in atRes[1].expected
        /\ c \notin atRes[1].received
        /\ \E f \in files : f.by = c
        /\ c \in snap[2] /\ c \notin ownRecv[2]
        /\ c \notin capture_received_clients

\* C2 (P3, early completion): once every expected websocket of the latest
\* call has had an image stored, the next wake-up of its barrier returns
\* instead of sleeping again, whatever else happened during the wait.
EarlyCompletion ==
    [][\A k \in Call :
          (/\ pc[k] = "sleep" /\ ncalls = k /\ ncalls' = k
           /\ snap[k] \subseteq DeliveredSince(k)
           /\ waited'[k] # waited[k])
             => pc'[k] = "returned"]_vars

\* C4 (re-trigger isolation): a call in its barrier evaluates the expected set
\* and the received set its own trigger created, and its resolution reads
\* those two sets, also when a later call has been triggered meanwhile.
RetriggerIsolation ==
    \A k \in Call :
        /\ InBarrier(k)
              => /\ capture_expected_clients = snap[k]
                 /\ capture_received_clients = ownRecv[k]
        /\ (pc[k] = "returned" /\ atRes[k] # NotResolved)
              => /\ atRes[k].expected = snap[k]
                 /\ ~atRes[k].latest => atRes[k].received = ownRecv[k]

\* C5 (no intermingling): an image that answers the capture command of call N
\* is written into the directory call N made, and the received set its sender
\* is added to is the one call N created (N still is the latest trigger).
NoIntermingling ==
    [][\A f \in files' \ files :
          f.tag # 0 => (f.path[1] = folderOf[f.tag] /\ ncalls = f.tag)]_vars

\* C6 (always a result value): no call of trigger_capture_and_wait ends by
\* raising an exception.
NeverRaises == \A k \in Call : pc[k] # "raised"

\* C7 (resolution rule): a call whose trigger found a registered websocket
\* returns success = true exactly when the received set equalled the expected
\* set at its resolution, and a missing list otherwise.
ResolutionRule ==
    \A k \in Call :
        (pc[k] = "returned" /\ snap[k] # {})
           => /\ result[k].success
                    <=> (atRes[k].received = atRes[k].expected)
              /\ ~result[k].success => DOMAIN result[k].missing # {}

\* C8 (partial result content): a resolution at the timeout with an expected
\* websocket whose image was not stored during the call returns
\* success = false, one missing entry per such websocket (its name in the name
\* map, else the placeholder), and as saved_images the number of websockets
\* whose image was stored during the call.
PartialResult ==
    [][\A k \in Call :
          (/\ pc[k] = "sleep" /\ pc'[k] = "returned"
           /\ waited'[k] = TimeoutPolls
           /\ ~(snap[k] \subseteq DeliveredSince(k)))
             => /\ ~result'[k].success
                /\ DOMAIN result'[k].missing = snap[k] \ DeliveredSince(k)
                /\ \A c \in DOMAIN result'[k].missing :
                      result'[k].missing[c] =
                         IF client_name_map[c] # Absent
                           THEN client_name_map[c] ELSE UnknownName(c)
                /\ result'[k].saved_images =
                      Cardinality(DeliveredSince(k))]_vars

\* No call of trigger_capture_and_wait is between its trigger and its return.
NoActiveSession == \A k \in Call : ~InBarrier(k)

\* C11 (fallback persistence): a binary frame handled while no session is
\* active (before the first trigger, or after the latest call returned) is
\* written into output/uncategorized, which exists afterwards; the handler
\* keeps running and the websocket stays registered.
FallbackPersistence ==
    [][\A c \in Conn, tag \in 0..MaxCalls :
          (Image(c, tag, now) /\ NoActiveSession)
             => /\ hpc'[c] = "loop"
                /\ c \in connected_clients'
                /\ Uncategorized \in dirs'
                /\ \E f \in files' : f.by = c /\ f.path[1] = Uncategorized]_vars

\* First messages that are not a hello: unparsable text, a binary frame, a
\* message of another type, or none within the grace window.
NotHello == {m \in FirstMsgs : m.kind \in {"other", "garbage", "binary", "timeout"}}

\* The handler of c is past the grace window, still running, and c goes by its
\* generated name.
Placeholder(c) ==
    hpc[c] \in {"sync", "loop"} /\ client_name_map[c] = ClientName(c)

\* C12 (scenario D, placeholder identity): a first message that is not a hello
\* leaves the websocket registered as client_<id> without a hardware address;
\* as long as its handler runs it stays so, every tick of broadcast_time sends
\* to it (its transport being open), and every trigger puts it into the
\* expected set.
PlaceholderIdentity ==
    [][/\ \A c \in Conn, m \in NotHello :
             Hello(c, m) => /\ c \in connected_clients'
                            /\ client_name_map'[c] = ClientName(c)
                            /\ client_mac_map'[c] = NoMac
       /\ \A c \in Conn :
             Placeholder(c)
                => /\ c \in connected_clients
                   /\ client_mac_map[c] = NoMac
                   /\ \A m \in Macs : mac_to_ws[m] # c
                   /\ (Tick /\ open[c]) => c \in lastSync'
                   /\ (\E k \in Call, t \in Time : Trigger(k, t))
                         => c \in capture_expected_clients']_vars

\* C12 witness: a websocket under its generated name was reached by the last
\* tick and is expected by a call that is in its barrier.
PlaceholderIdentityWitness ==
    \E c \in Conn, k \in Call :
        /\ Placeholder(c) /\ hpc[c] = "loop"
        /\ c \in lastSync
        /\ pc[k] = "sleep" /\ ncalls = k /\ c \in capture_expected_clients

\* C13 (image receipt for every registered device): a binary frame handled
\* while the latest call is in its barrier is written into the session's
\* directory and its sender is added to the received set, whether or not the
\* sender announced a hardware address; the sender stays registered and its
\* handler keeps running.
ImageReceipt ==
    [][\A c \in Conn, tag \in 0..MaxCalls :
          (Image(c, tag, now) /\ ncalls >= 1 /\ InBarrier(ncalls))
             => /\ \E f \in files' :
                      f.by = c /\ f.path[1] = current_capture_folder
                /\ c \in capture_received_clients'
                /\ c \in connected_clients'
                /\ hpc'[c] = "loop"]_vars

\* C14 (malformed messages are contained): a text frame that cannot be parsed
\* leaves the handler in its message loop, the websocket registered and the
\* transport open, so later frames are still handled.
MalformedContained ==
    [][\A c \in Conn :
          Malformed(c) => /\ hpc'[c] = "loop"
                          /\ open'[c]
                          /\ c \in connected_clients']_vars

\* C15 (registry liveness): a websocket whose handler has finished, at
\* whatever point, is in none of connected_clients, client_name_map,
\* client_mac_map and the values of mac_to_ws.
RegistryLiveness ==
    \A c \in Conn :
        hpc[c] \in {"dead", "done"}
           => /\ c \notin connected_clients
              /\ client_name_map[c] = Absent
              /\ client_mac_map[c] = NoMac
              /\ \A m \in Macs : mac_to_ws[m] # c

\* C16 (broadcaster isolation): a send that fails on one websocket does not
\* stop broadcast_time: after every tick, a failed send included, the
\* broadcaster is still running, so the websockets that stay registered are
\* sent to on the later ticks.
BroadcasterIsolation ==
    [][Tick => bpc' = "run"]_vars

\* The addresses in the "mac" column of the rows of a ledger file.
RowMacs(file) == {file[i][2] : i \in 2..Len(file)}

\* Line r of after is line old with empty values appended.
Backfilled(old, r) ==
    /\ Len(r) >= Len(old)
    /\ SubSeq(r, 1, Len(old)) = old
    /\ \A n \in (Len(old) + 1)..Len(r) : r[n] = ""

\* C17 (P4, ledger schema growth): when the telemetry of an address that no
\* earlier row contains is written, the header line gains columns for that
\* device, and every earlier row is in the new file with its values unchanged
\* and empty values in the new columns.
LedgerSchemaGrowth ==
    [][\A c \in Conn, data \in Metadatas :
          (Metadata(c, data, "ok") /\ data.mac \notin RowMacs(csv))
             => /\ Len(csv'[1]) > Len(csv[1])
                /\ SubSeq(csv'[1], 1, Len(csv[1])) = csv[1]
                /\ \A i \in 2..Len(csv) :
                      \E j \in 2..Len(csv') :
                         /\ Backfilled(csv[i], csv'[j])
                         /\ Len(csv'[j]) = Len(csv'[1])]_vars

\* C18 (one ledger row per session): the ledger holds exactly one row for
\* every call that has resolved with a non-empty expected set, however many
\* capture_metadata messages arrived.
OneRowPerSession ==
    Len(csv) - 1 = Cardinality({k \in Call : pc[k] = "returned" /\ snap[k] # {}})

\* The timeout, in seconds, that max_wait holds.
SecondsOf(x) == x[1] \div 65536

\* C19 (bounded barrier): whatever the devices do, the loop sleeps at most
\* ceil(timeout / 0.1) times, which is 10 * timeout for a timeout of whole
\* seconds, before the call resolves.
BoundedBarrier ==
    lpc \in {"head", "resolved"} => polls <= 10 * SecondsOf(max_wait)

\* C20 (directory before command): from the moment the capture command of a
\* call has been handed to the websockets, the directory of that call exists,
\* and so does the directory any binary frame is written into: every stored
\* image lies in an existing directory.
DirectoryBeforeCommand ==
    /\ \A k \in Call : k <= ncalls => folderOf[k] \in dirs
    /\ current_capture_folder # Unbound => current_capture_folder \in dirs
    /\ \A f \in files : f.path[1] \in dirs

\* C20 witness: an image answering the command of the latest call, still in
\* its barrier, has been stored in the directory that call made.
DirectoryBeforeCommandWitness ==
    \E f \in files :
        /\ f.tag >= 1 /\ f.tag = ncalls /\ InBarrier(f.tag)
        /\ f.path[1] = folderOf[f.tag]
        /\ f.by \in snap[f.tag]

LiveWith(c, m) ==
    /\ hpc[c] \in {"sync", "loop"}
    /\ c \in connected_clients
    /\ client_mac_map[c] = m

\* C22 (address map consistency): for every running, registered websocket
\* that announced address m, mac_to_ws[m] is defined and is a running,
\* registered websocket that announced m; in particular it is the newer
\* websocket once an older one with the same address has been torn down.
AddressMapConsistency ==
    \A c \in Conn, m \in Macs :
        LiveWith(c, m)
           => /\ mac_to_ws[m] # 0
              /\ LiveWith(mac_to_ws[m], m)

\* The step handles a capture_metadata frame.
MetadataStep ==
    \E c \in Conn, data \in Metadatas, io \in {"ok", "failed"} :
        Metadata(c, data, io)

\* C23 (metadata latest-wins, independent of images): a capture_metadata
\* frame carrying address m makes metadata_records[m] that message, whatever
\* was recorded before and whether or not an image of the device is stored; it
\* leaves the other records, the expected set and the received set as they
\* are; and no other step, the storing of an image included, changes a record.
MetadataLatestWins ==
    [][/\ \A c \in Conn, data \in Metadatas, io \in {"ok", "failed"} :
             Metadata(c, data, io)
                => /\ metadata_records'[data.mac] = <<data>>
                   /\ \A m \in ReportedMacs \ {data.mac} :
                         metadata_records'[m] = metadata_records[m]
                   /\ capture_expected_clients' = capture_expected_clients
                   /\ capture_received_clients' = capture_received_clients
       /\ ~MetadataStep => metadata_records' = metadata_records]_vars

\* C23 witness: two messages carried m1 with different contents, the record
\* is the one written last (the row right under the header), and an image of
\* the device is stored; for m2 a record is held without any image.
MetadataLatestWinsWitness ==
    /\ Len(csv) = 3
    /\ csv[2][2] = "m1" /\ csv[3][2] = "m1" /\ csv[2][3] # csv[3][3]
    /\ metadata_records["m1"] # <<>>
    /\ csv[2][3] = (IF metadata_records["m1"][1].device_id = Absent
                      THEN "" ELSE Str(metadata_records["m1"][1].device_id))
    /\ \E f \in files : f.path[3] = "m1"
    /\ metadata_records["m2"] # <<>>

\* C24 (ledger file layout after an append): after a capture_metadata frame
\* whose file update succeeded, the file is the header line, then the rows it
\* held before, unchanged and in their order, then the new row as last line.
LedgerLayout ==
    [][\A c \in Conn, data \in Metadatas :
          Metadata(c, data, "ok")
             => csv' = <<HeaderLine>> \o Tail(csv)
                          \o <<RowLine(LedgerRow(data))>>]_vars

\* C25 (ledger write failure is non-fatal): a capture_metadata frame whose
\* file update fails still stores its record; the handler stays in its message
\* loop with the websocket registered and the transport open, and every call
\* keeps its position, so a barrier that is sleeping wakes up and resolves as
\* it would have.
LedgerFailureNonFatal ==
    [][\A c \in Conn, data \in Metadatas :
          Metadata(c, data, "failed")
             => /\ metadata_records'[data.mac] = <<data>>
                /\ hpc'[c] = "loop" /\ open'[c]
                /\ c \in connected_clients'
                /\ pc' = pc /\ waited' = waited /\ result' = result
                /\ capture_expected_clients' = capture_expected_clients
                /\ capture_received_clients' = capture_received_clients
                /\ \A k \in Call : pc'[k] = "sleep" => ENABLED Wake(k)]_vars

\* C25 witness: a record is stored that no row of the file holds (its file
\* update failed), its sender's handler is still in the message loop, and a
\* call expecting the sender has resolved with a result.
LedgerFailureNonFatalWitness ==
    \E c \in Conn, k \in Call, m \in ReportedMacs :
        /\ metadata_records[m] # <<>> /\ m \notin RowMacs(csv)
        /\ hpc[c] = "loop" /\ c \in connected_clients
        /\ pc[k] = "returned" /\ c \in snap[k]
        /\ result[k].status = "value"

\* C26 (received within expected): while a call is in its barrier the
\* received set is a subset of the expected set, so no result reports more
\* saved images than websockets were expected, and a success result reports
\* exactly as many.
ReceivedWithinExpected ==
    /\ (\E k \in Call : InBarrier(k))
          => capture_received_clients \subseteq capture_expected_clients
    /\ \A k \in Call :
          (pc[k] = "returned" /\ atRes[k] # NotResolved)
             => /\ result[k].saved_images <= Cardinality(atRes[k].expected)
                /\ result[k].success
                      => result[k].saved_images
                            = Cardinality(atRes[k].expected)

\* C27 (no inbound image is lost): every binary frame a connected device
\* sends, as its first message inside the hello grace window or later in the
\* message loop, results in an image file of that websocket, and while a call
\* is in its barrier the sender is added to the received set.
NoImageLost ==
    [][/\ \A c \in Conn, m \in FirstMsgs :
             (Hello(c, m) /\ m.kind = "binary")
                => \E f \in files' \ files : f.by = c
       /\ \A c \in Conn, tag \in 0..MaxCalls :
             Image(c, tag, now)
                => /\ \E f \in files' : f.by = c /\ f.tag = tag
                   /\ (\E k \in Call : InBarrier(k))
                         => c \in capture_received_clients']_vars

\* C28 (duration from the session's own image): the duration in the row a
\* capture_metadata frame adds is empty, or it is computed from an image of
\* the same device that was stored since the latest trigger, and then it is
\* not negative; an image time left over from an earlier session is not used.
DurationOfSameSession ==
    [][\A c \in Conn, data \in Metadatas :
          Metadata(c, data, "ok")
             => \A i \in 2..Len(csv') :
                   (csv'[i] = RowLine(LedgerRow(data)) /\ csv'[i][10] # "")
                      => /\ ncalls >= 1
                         /\ \E d \in ownRecv[ncalls] :
                               client_mac_map[d] = data.mac
                         /\ data.mac \in Macs
                         /\ image_receive_times[data.mac]
                               >= capture_request_received_time]_vars

\* C29 (distinct files for distinct connections): every member of the
\* received set has an image file of its own in the session's directory, so
\* the directory holds as many files of received websockets as saved_images
\* will count; no websocket's image is overwritten by another's.
DistinctFiles ==
    /\ \A c \in capture_received_clients :
          \E f \in files : f.by = c /\ f.path[1] = current_capture_folder
    /\ Cardinality({f \in files : /\ f.path[1] = current_capture_folder
                                  /\ f.by \in capture_received_clients})
          = Cardinality(capture_received_clients)

====
